---- MODULE Spec2Model ----
(***************************************************************************)
(* State-machine model of the leet_wallet Anchor program                   *)
(* (programs/solana-wallet/src/lib.rs): one SmartWallet account, its       *)
(* Guardian accounts, the cluster clock, and one action per instruction.   *)
(*                                                                         *)
(* An instruction is atomic: the Anchor account constraints of its         *)
(* #[derive(Accounts)] struct are evaluated first, then the handler runs,  *)
(* and the accounts are written back only when the handler returns Ok.     *)
(* Any error (a failed constraint, a require!, a failed CPI, a panic)      *)
(* aborts the transaction and leaves every account as it was.              *)
(***************************************************************************)
EXTENDS Integers, Sequences, FiniteSets, TLC

(***************************************************************************)
(* Bounds of the model.                                                    *)
(***************************************************************************)
\* Largest value of the scaled-down u64 word (daily_limit, daily_spent,
\* amount): arithmetic on these fields is done modulo U64_MAX + 1.
U64_MAX == 3
\* Largest value of the scaled-down u8 word of PendingRecovery.approvals and
\* guardian_threshold (guardian_count, kept below 7 by add_guardian, never
\* overflows and is not reduced).
U8_MAX == 3
\* Largest value of the scaled-down i64 word (unix_timestamp, recovery_delay).
I64_MAX == 131071
\* The clock stops advancing at MaxNow.
MaxNow == 129600
\* nonce is a u64 that only grows by 1 per committed instruction: its
\* wrap-around is out of reach of any run, so the counter is capped instead.
MaxNonce == 2
\* Largest guardian_threshold given to initialize_wallet.
MaxThreshold == 2
\* Largest number of signature entries given to execute_transaction.
MaxSigs == 2
\* Guardian records a caller passes to initiate/approve_recovery are taken
\* among the first MaxApprovers records of the wallet.
MaxApprovers == 2

(***************************************************************************)
(* Program constants.                                                      *)
(***************************************************************************)
\* lib.rs:31, lib.rs:86: unix_timestamp / 86400
SECONDS_PER_DAY == 86400
\* lib.rs:56: require!(wallet.guardian_count < 7, ...)
MAX_GUARDIANS == 7

(***************************************************************************)
(* Input sets.                                                             *)
(***************************************************************************)
\* keys that sign transactions
Signers == {"k1", "k2"}
\* the authority account given to initialize_wallet
InitAuthority == "k1"
\* guardian_pubkey arguments of add_guardian
GuardianKeys == {"k2"}
\* new_authority arguments of initiate_recovery
NewAuthorities == {"k2"}
\* instruction_data arguments of execute_transaction
Payloads == {"p1"}
U64 == 0..U64_MAX
\* recovery_delay arguments of initialize_wallet
RecoveryDelays == {SECONDS_PER_DAY, I64_MAX}
\* advances of the cluster clock between two instructions
ClockSteps == {SECONDS_PER_DAY}
\* unix_timestamp when initialize_wallet runs
InitTimes == {43200}

None == [tag |-> "None"]

VARIABLES
    wallet,          \* the SmartWallet account
    guardians,       \* the Guardian accounts, by slot (seed guardian_count)
    now,             \* Clock::get()?.unix_timestamp
    overflow_checks, \* build profile: TRUE = integer overflow panics, FALSE = wraps
    result,          \* the last instruction processed: op, err and its arguments
    approvers,       \* history: guardian slots that approved the pending recovery
    accepted_today   \* history: true sum of the amounts transfer_spl accepted
                     \*          on the day index of now

vars == <<wallet, guardians, now, overflow_checks, result, approvers, accepted_today>>

(***************************************************************************)
(* Integer arithmetic of the build.                                        *)
(***************************************************************************)
\* a u64 result reduced modulo 2^w
WrapU64(x) == x % (U64_MAX + 1)
\* a u8 result reduced modulo 2^w
WrapU8(x) == x % (U8_MAX + 1)
\* an i64 result reduced to the two's complement range
WrapI64(x) == ((x + I64_MAX + 1) % (2 * (I64_MAX + 1))) - (I64_MAX + 1)

\* Clock::get()?.unix_timestamp / 86400 (timestamps of the model are >= 0)
DayOf(t) == t \div SECONDS_PER_DAY

(***************************************************************************)
(* SmartWallet after initialize_wallet.                                    *)
(***************************************************************************)
InitWallet(authority, guardian_threshold, daily_limit, recovery_delay, t) ==
    [ authority          |-> authority,
      guardian_threshold |-> guardian_threshold,
      guardian_count     |-> 0,
      daily_limit        |-> daily_limit,
      daily_spent        |-> 0,
      last_reset_day     |-> DayOf(t),
      recovery_delay     |-> recovery_delay,
      pending_recovery   |-> None,
      nonce              |-> 0,
      is_frozen          |-> FALSE ]

Init ==
    /\ now \in InitTimes
    /\ overflow_checks \in BOOLEAN
    /\ \E th \in 0..MaxThreshold, dl \in U64, rd \in RecoveryDelays :
          wallet = InitWallet(InitAuthority, th, dl, rd, now)
    /\ guardians = << >>
    /\ result = [op |-> "initialize_wallet", err |-> "Ok", args |-> None, replay |-> FALSE]
    /\ approvers = {}
    /\ accepted_today = 0

(***************************************************************************)
(* Outcome of an instruction.                                              *)
(***************************************************************************)
\* mutant of Committed: the handler's in-memory account is written back even
\* when the handler fails
Committed_InMemory(w, out) == out.wallet

\* #[program] (lib.rs:10): the account a handler worked on is written back
\* only when the handler returns Ok(()); out.wallet is the in-memory account
\* at the point the handler returned.
Committed(w, out) == IF out.err = "Ok" THEN out.wallet ELSE w

\* The instruction failed with out.err: the transaction is rolled back.
Reject(op, out) ==
    /\ result' = [op |-> op, err |-> out.err, args |-> None, replay |-> FALSE]
    /\ wallet' = Committed(wallet, out)
    /\ UNCHANGED <<guardians, now, overflow_checks, approvers, accepted_today>>

\* The instruction returned Ok.  replay tells that the step before accepted
\* this very instruction (same op, same arguments, same signer).
Accept(op, args) ==
    result' = [op |-> op, err |-> "Ok", args |-> args,
               replay |-> (result.op = op /\ result.err = "Ok" /\ result.args = args)]

\* has_one = authority with authority: Signer (lib.rs:358, 403, 448, 468)
HasOneAuthority(w, signer) == signer = w.authority

(***************************************************************************)
(* transfer_spl (lib.rs:77-129), accounts TransferSPL (lib.rs:379-397).    *)
(***************************************************************************)
\* mutant of IsFrozen: the freeze check is left out
IsFrozen_Skipped(w) == FALSE

\* lib.rs:83, lib.rs:139: require!(!wallet.is_frozen, WalletFrozen)
IsFrozen(w) == w.is_frozen

\* mutant of LazyReset: the budget is reset on the day of the last reset too
LazyReset_SameDay(w, t) ==
    IF DayOf(t) >= w.last_reset_day
    THEN [w EXCEPT !.daily_spent = 0, !.last_reset_day = DayOf(t)]
    ELSE w

\* lib.rs:85-90: reset daily limit if new day
LazyReset(w, t) ==
    IF DayOf(t) > w.last_reset_day
    THEN [w EXCEPT !.daily_spent = 0, !.last_reset_day = DayOf(t)]
    ELSE w

\* wallet.daily_spent + amount overflows the u64 word (lib.rs:94, lib.rs:118)
SpendOverflows(w, amount) == w.daily_spent + amount > U64_MAX

\* lib.rs:93-96: wallet.daily_spent + amount <= wallet.daily_limit
WithinDailyLimit(w, amount) == WrapU64(w.daily_spent + amount) <= w.daily_limit

\* The handler on wallet w at time t; cpi_ok is the result of token::transfer.
transfer_spl_handler(w, t, amount, cpi_ok) ==
    LET w1 == LazyReset(w, t) IN
    IF IsFrozen(w) THEN [err |-> "WalletFrozen", wallet |-> w]
    ELSE IF SpendOverflows(w1, amount) /\ overflow_checks
         THEN [err |-> "Panic", wallet |-> w1]
    ELSE IF ~WithinDailyLimit(w1, amount)
         THEN [err |-> "DailyLimitExceeded", wallet |-> w1]
    ELSE IF ~cpi_ok THEN [err |-> "TokenTransferFailed", wallet |-> w1]
    ELSE [err |-> "Ok",
          wallet |-> [w1 EXCEPT !.daily_spent = WrapU64(w1.daily_spent + amount),
                                !.nonce = w1.nonce + 1]]

\* TransferSPL: authority is a Signer, but the wallet has no has_one = authority
transfer_spl ==
    \E signer \in Signers, amount \in U64, cpi_ok \in BOOLEAN :
        LET out == transfer_spl_handler(wallet, now, amount, cpi_ok)
            args == [signer |-> signer, amount |-> amount] IN
        /\ wallet.nonce < MaxNonce
        /\ IF out.err = "Ok"
           THEN /\ wallet' = out.wallet
                /\ accepted_today' = accepted_today + amount
                /\ Accept("transfer_spl", args)
                /\ UNCHANGED <<guardians, now, overflow_checks, approvers>>
           ELSE Reject("transfer_spl", out)

(***************************************************************************)
(* execute_transaction (lib.rs:132-154), accounts ExecuteTransaction       *)
(* (lib.rs:399-408).  signatures is modelled by its length n_signatures    *)
(* and by verifies, the answer a threshold-signature verifier would give   *)
(* for (instruction_data, signatures, authority key).                      *)
(***************************************************************************)
\* lib.rs:140: signatures.len() >= wallet.guardian_threshold as usize
EnoughSignatures(w, n_signatures) == n_signatures >= w.guardian_threshold

execute_transaction_handler(w, instruction_data, n_signatures, verifies) ==
    IF IsFrozen(w) THEN [err |-> "WalletFrozen", wallet |-> w]
    ELSE IF ~EnoughSignatures(w, n_signatures)
         THEN [err |-> "InsufficientSignatures", wallet |-> w]
    ELSE [err |-> "Ok", wallet |-> w]

\* the instruction as Anchor processes it: has_one = authority, then the handler
execute_transaction_ix(w, signer, instruction_data, n_signatures, verifies) ==
    IF ~HasOneAuthority(w, signer) THEN [err |-> "ConstraintHasOne", wallet |-> w]
    ELSE execute_transaction_handler(w, instruction_data, n_signatures, verifies)

execute_transaction ==
    \E signer \in Signers, instruction_data \in Payloads,
       n_signatures \in 0..MaxSigs, verifies \in BOOLEAN :
        LET out == execute_transaction_ix(wallet, signer, instruction_data,
                                          n_signatures, verifies)
            args == [signer |-> signer, instruction_data |-> instruction_data,
                     n_signatures |-> n_signatures, verifies |-> verifies] IN
        IF out.err = "Ok"
        THEN /\ Accept("execute_transaction", args)
             /\ UNCHANGED <<wallet, guardians, now, overflow_checks, approvers,
                            accepted_today>>
        ELSE Reject("execute_transaction", out)

(***************************************************************************)
(* add_guardian (lib.rs:48-74), accounts AddGuardian (lib.rs:354-377).     *)
(* The Guardian account is created (init) at the seed guardian_count, a    *)
(* slot no earlier add_guardian has used.                                  *)
(***************************************************************************)
\* mutant of GuardianSlotFree: the cap is off by one
GuardianSlotFree_OffByOne(w) == w.guardian_count <= MAX_GUARDIANS

\* lib.rs:56: require!(wallet.guardian_count < 7, TooManyGuardians)
GuardianSlotFree(w) == w.guardian_count < MAX_GUARDIANS

\* lib.rs:58-63: the Guardian record written by add_guardian
NewGuardian(guardian_pubkey) == [pubkey |-> guardian_pubkey, is_active |-> TRUE]

add_guardian_ix(w, gs, signer, guardian_pubkey) ==
    IF ~HasOneAuthority(w, signer)
    THEN [err |-> "ConstraintHasOne", wallet |-> w, guardians |-> gs]
    ELSE IF ~GuardianSlotFree(w)
    THEN [err |-> "TooManyGuardians", wallet |-> w, guardians |-> gs]
    ELSE [err |-> "Ok",
          wallet |-> [w EXCEPT !.guardian_count = w.guardian_count + 1],
          guardians |-> Append(gs, NewGuardian(guardian_pubkey))]

add_guardian ==
    \E signer \in Signers, guardian_pubkey \in GuardianKeys :
        LET out == add_guardian_ix(wallet, guardians, signer, guardian_pubkey)
            args == [signer |-> signer, guardian_pubkey |-> guardian_pubkey] IN
        IF out.err = "Ok"
        THEN /\ wallet' = out.wallet
             /\ guardians' = out.guardians
             /\ Accept("add_guardian", args)
             /\ UNCHANGED <<now, overflow_checks, approvers, accepted_today>>
        ELSE Reject("add_guardian", out)

(***************************************************************************)
(* Recovery: initiate_recovery (lib.rs:157-180), approve_recovery          *)
(* (lib.rs:183-200), execute_recovery (lib.rs:203-229).                    *)
(***************************************************************************)
\* the guardian records a caller can pass: accounts of this wallet
\* (constraint guardian.wallet == wallet.key(), lib.rs:416, lib.rs:430)
GuardianSlots ==
    1..(IF Len(guardians) < MaxApprovers THEN Len(guardians) ELSE MaxApprovers)

\* mutant of NoRecoveryPending: a pending recovery is not noticed
NoRecoveryPending_Always(w) == TRUE

\* lib.rs:164, lib.rs:188, lib.rs:207: wallet.pending_recovery is None
NoRecoveryPending(w) == w.pending_recovery = None

\* lib.rs:166-171: the PendingRecovery written by initiate_recovery
NewPendingRecovery(new_authority, t) ==
    [new_authority |-> new_authority, initiated_at |-> t, approvals |-> 0,
     executed |-> FALSE]

\* lib.rs:176 and lib.rs:214: initiated_at + wallet.recovery_delay, in i64
DelayOverflows(w, t) == t + w.recovery_delay > I64_MAX
ExecutableAt(w, t) == WrapI64(t + w.recovery_delay)

\* constraint = guardian.is_active (lib.rs:417), then the handler
initiate_recovery_ix(w, t, guardian, new_authority) ==
    IF ~guardian.is_active THEN [err |-> "ConstraintRaw", wallet |-> w]
    ELSE IF ~NoRecoveryPending(w)
    THEN [err |-> "RecoveryAlreadyPending", wallet |-> w]
    ELSE LET w1 == [w EXCEPT !.pending_recovery = NewPendingRecovery(new_authority, t)] IN
         IF DelayOverflows(w, t) /\ overflow_checks
         THEN [err |-> "Panic", wallet |-> w1]
         ELSE [err |-> "Ok", wallet |-> w1]

\* InitiateRecovery: initiator is a Signer, compared with nothing
initiate_recovery ==
    \E signer \in Signers, g \in GuardianSlots, new_authority \in NewAuthorities :
        LET out == initiate_recovery_ix(wallet, now, guardians[g], new_authority)
            args == [signer |-> signer, guardian |-> g,
                     new_authority |-> new_authority] IN
        IF out.err = "Ok"
        THEN /\ wallet' = out.wallet
             /\ approvers' = {}
             /\ Accept("initiate_recovery", args)
             /\ UNCHANGED <<guardians, now, overflow_checks, accepted_today>>
        ELSE Reject("initiate_recovery", out)

\* lib.rs:191: recovery.approvals += 1, in u8
ApprovalsOverflow(w) == w.pending_recovery.approvals + 1 > U8_MAX
Approve(w) ==
    [w EXCEPT !.pending_recovery.approvals = WrapU8(w.pending_recovery.approvals + 1)]

\* constraint = guardian.is_active (lib.rs:431), then the handler
approve_recovery_ix(w, guardian) ==
    IF ~guardian.is_active THEN [err |-> "ConstraintRaw", wallet |-> w]
    ELSE IF ~guardian.is_active THEN [err |-> "GuardianInactive", wallet |-> w]
    ELSE IF NoRecoveryPending(w) THEN [err |-> "NoRecoveryPending", wallet |-> w]
    ELSE IF ApprovalsOverflow(w) /\ overflow_checks
    THEN [err |-> "Panic", wallet |-> w]
    ELSE [err |-> "Ok", wallet |-> Approve(w)]

\* ApproveRecovery: approver is a Signer, compared with nothing
approve_recovery ==
    \E signer \in Signers, g \in GuardianSlots :
        LET out == approve_recovery_ix(wallet, guardians[g])
            args == [signer |-> signer, guardian |-> g] IN
        IF out.err = "Ok"
        THEN /\ wallet' = out.wallet
             /\ approvers' = approvers \cup {g}
             /\ Accept("approve_recovery", args)
             /\ UNCHANGED <<guardians, now, overflow_checks, accepted_today>>
        ELSE Reject("approve_recovery", out)

\* lib.rs:209-212: recovery.approvals >= wallet.guardian_threshold
EnoughApprovals(w) == w.pending_recovery.approvals >= w.guardian_threshold

\* lib.rs:213-216: clock.unix_timestamp >= recovery.initiated_at + wallet.recovery_delay
DelayMet(w, t) == t >= ExecutableAt(w, w.pending_recovery.initiated_at)

\* mutant of Recovered: the executed recovery stays pending
Recovered_StillPending(w) ==
    [w EXCEPT !.authority = w.pending_recovery.new_authority,
              !.pending_recovery.executed = TRUE,
              !.nonce = w.nonce + 1]

\* lib.rs:218-221: the handover
Recovered(w) ==
    [w EXCEPT !.authority = w.pending_recovery.new_authority,
              !.pending_recovery = None,
              !.nonce = w.nonce + 1]

execute_recovery_handler(w, t) ==
    IF NoRecoveryPending(w) THEN [err |-> "NoRecoveryPending", wallet |-> w]
    ELSE IF ~EnoughApprovals(w) THEN [err |-> "InsufficientApprovals", wallet |-> w]
    ELSE IF DelayOverflows(w, w.pending_recovery.initiated_at) /\ overflow_checks
    THEN [err |-> "Panic", wallet |-> w]
    ELSE IF ~DelayMet(w, t) THEN [err |-> "RecoveryDelayNotMet", wallet |-> w]
    ELSE [err |-> "Ok", wallet |-> Recovered(w)]

\* ExecuteRecovery: the wallet account only, no signer is required
execute_recovery ==
    LET out == execute_recovery_handler(wallet, now) IN
    /\ wallet.nonce < MaxNonce
    /\ IF out.err = "Ok"
       THEN /\ wallet' = out.wallet
            /\ approvers' = {}
            /\ Accept("execute_recovery", None)
            /\ UNCHANGED <<guardians, now, overflow_checks, accepted_today>>
       ELSE Reject("execute_recovery", out)

(***************************************************************************)
(* freeze_wallet (lib.rs:232-242), unfreeze_wallet (lib.rs:245-256),       *)
(* update_daily_limit (lib.rs:259-272).                                    *)
(***************************************************************************)
freeze_wallet_ix(w, signer) ==
    IF ~HasOneAuthority(w, signer) THEN [err |-> "ConstraintHasOne", wallet |-> w]
    ELSE [err |-> "Ok", wallet |-> [w EXCEPT !.is_frozen = TRUE]]

freeze_wallet ==
    \E signer \in Signers :
        LET out == freeze_wallet_ix(wallet, signer) IN
        IF out.err = "Ok"
        THEN /\ wallet' = out.wallet
             /\ Accept("freeze_wallet", [signer |-> signer])
             /\ UNCHANGED <<guardians, now, overflow_checks, approvers, accepted_today>>
        ELSE Reject("freeze_wallet", out)

\* number of Guardian records with is_active set
ActiveGuardians(gs) == Cardinality({i \in 1..Len(gs) : gs[i].is_active})

\* UnfreezeWallet (lib.rs:455-462): authority is a Signer, the wallet has no
\* has_one.  guardian_proofs is the number of distinct active guardians whose
\* endorsement accompanies the transaction; the program reads none of it.
GuardianProofs ==
    0..(IF ActiveGuardians(guardians) < MaxSigs THEN ActiveGuardians(guardians) ELSE MaxSigs)

unfreeze_wallet_ix(w, signer, guardian_proofs) ==
    [err |-> "Ok", wallet |-> [w EXCEPT !.is_frozen = FALSE]]

unfreeze_wallet ==
    \E signer \in Signers, guardian_proofs \in GuardianProofs :
        LET out == unfreeze_wallet_ix(wallet, signer, guardian_proofs) IN
        IF out.err = "Ok"
        THEN /\ wallet' = out.wallet
             /\ Accept("unfreeze_wallet", [signer |-> signer,
                                            guardian_proofs |-> guardian_proofs,
                                            was_frozen |-> wallet.is_frozen])
             /\ UNCHANGED <<guardians, now, overflow_checks, approvers, accepted_today>>
        ELSE Reject("unfreeze_wallet", out)

update_daily_limit_ix(w, signer, new_limit) ==
    IF ~HasOneAuthority(w, signer) THEN [err |-> "ConstraintHasOne", wallet |-> w]
    ELSE [err |-> "Ok", wallet |-> [w EXCEPT !.daily_limit = new_limit]]

update_daily_limit ==
    \E signer \in Signers, new_limit \in U64 :
        LET out == update_daily_limit_ix(wallet, signer, new_limit) IN
        IF out.err = "Ok"
        THEN /\ wallet' = out.wallet
             /\ Accept("update_daily_limit", [signer |-> signer, new_limit |-> new_limit])
             /\ UNCHANGED <<guardians, now, overflow_checks, approvers, accepted_today>>
        ELSE Reject("update_daily_limit", out)

(***************************************************************************)
(* The cluster clock advances between instructions.                        *)
(***************************************************************************)
Tick ==
    \E d \in ClockSteps :
        /\ now + d <= MaxNow
        /\ now' = now + d
        /\ accepted_today' = IF DayOf(now + d) = DayOf(now) THEN accepted_today ELSE 0
        /\ result' = [op |-> "clock", err |-> "Ok", args |-> None, replay |-> FALSE]
        /\ UNCHANGED <<wallet, guardians, overflow_checks, approvers>>

(***************************************************************************)
(* Specifications.                                                         *)
(***************************************************************************)
Next ==
    \/ add_guardian
    \/ transfer_spl
    \/ execute_transaction
    \/ initiate_recovery
    \/ approve_recovery
    \/ execute_recovery
    \/ freeze_wallet
    \/ unfreeze_wallet
    \/ update_daily_limit
    \/ Tick

Spec == Init /\ [][Next]_vars

\* The spending side of the wallet: the instructions that read or write
\* daily_limit, daily_spent, last_reset_day and is_frozen.  The instructions
\* left out write guardian_count, pending_recovery, authority and nonce only;
\* of these the spending side reads authority, through has_one, and both a
\* signer that is the authority and one that is not are in Signers.
NextSpend ==
    \/ execute_transaction
    \/ transfer_spl
    \/ freeze_wallet
    \/ unfreeze_wallet
    \/ update_daily_limit
    \/ Tick

SpecSpend == Init /\ [][NextSpend]_vars

\* The guardian registry and the recovery state machine.  The instructions
\* left out write daily_limit, daily_spent, last_reset_day, is_frozen and
\* nonce, none of which these four read (nonce is only incremented).
NextRecovery ==
    \/ add_guardian
    \/ initiate_recovery
    \/ approve_recovery
    \/ execute_recovery
    \/ Tick

SpecRecovery == Init /\ [][NextRecovery]_vars

\* The same, for the build whose integer overflows panic.
InitChecked == Init /\ overflow_checks

SpecRecoveryChecked == InitChecked /\ [][NextRecovery]_vars

\* The recovery instructions under the scheduling a stuck-free recovery
\* presumes: each guardian record keeps being used to approve, the clock
\* keeps advancing, and execute_recovery keeps being attempted.
FairRecovery ==
    /\ \A g \in 1..MaxApprovers :
          WF_vars(approve_recovery /\ result'.err = "Ok" /\ result'.args.guardian = g)
    /\ WF_vars(Tick)
    /\ WF_vars(execute_recovery)

SpecRecoveryFair == Init /\ [][NextRecovery]_vars /\ FairRecovery

(***************************************************************************)
(* Properties.                                                             *)
(***************************************************************************)
\* The instruction passed the account constraints of its Accounts struct and
\* the handler function was called.
HandlerEntered == result.err \notin {"ConstraintHasOne", "ConstraintRaw"}

\* C1: transfers whose clock readings fall in one day index: right after a
\* transfer succeeds, the sum of the amounts accepted on that day is at most
\* daily_limit, and daily_spent <= daily_limit.
C1_DailyBudgetRespected ==
    (result.op = "transfer_spl" /\ result.err = "Ok")
        => /\ accepted_today <= wallet.daily_limit
           /\ wallet.daily_spent <= wallet.daily_limit

\* C2: the approval count execute_recovery compares with guardian_threshold is
\* the number of distinct guardians that approved the pending recovery.
C2_ApprovalsAreDistinctGuardians ==
    wallet.pending_recovery # None
        => wallet.pending_recovery.approvals = Cardinality(approvers)

\* C3: with a recovery pending, execute_recovery succeeds iff the number of
\* approving guardians is >= guardian_threshold and now >= initiated_at +
\* recovery_delay; with only the quorum missing it fails with
\* InsufficientApprovals, with only the delay missing with RecoveryDelayNotMet.
C3_ExecuteIffQuorumAndDelay ==
    [][ (result'.op = "execute_recovery" /\ wallet.pending_recovery # None)
          => LET quorum == Cardinality(approvers) >= wallet.guardian_threshold
                 delay  == now >= wallet.pending_recovery.initiated_at
                                    + wallet.recovery_delay
             IN /\ (result'.err = "Ok") <=> (quorum /\ delay)
                /\ (~quorum /\ delay) => result'.err = "InsufficientApprovals"
                /\ (quorum /\ ~delay) => result'.err = "RecoveryDelayNotMet" ]_vars

\* the state-mutating instructions
MutatingOps ==
    {"add_guardian", "transfer_spl", "execute_transaction", "initiate_recovery",
     "approve_recovery", "execute_recovery", "freeze_wallet", "unfreeze_wallet",
     "update_daily_limit"}

\* C4: every successful state-mutating instruction leaves nonce = nonce + 1,
\* no step changes the wallet and leaves nonce as it was, and nonce never
\* decreases.
C4_NonceAdvancesOnEveryMutation ==
    [][ /\ (result'.op \in MutatingOps /\ result'.err = "Ok")
              => wallet'.nonce = wallet.nonce + 1
        /\ (wallet' # wallet) => wallet'.nonce = wallet.nonce + 1
        /\ wallet'.nonce >= wallet.nonce ]_vars

\* C5: a frozen wallet is unfrozen only when the endorsement of at least
\* guardian_threshold distinct active guardians is presented, never by the
\* authority key or any single signer alone.
C5_UnfreezeNeedsGuardianQuorum ==
    (result.op = "unfreeze_wallet" /\ result.err = "Ok" /\ result.args.was_frozen)
        => result.args.guardian_proofs >= wallet.guardian_threshold

\* C6: on an unfrozen wallet execute_transaction fails with
\* InsufficientSignatures when fewer than guardian_threshold entries are
\* supplied, succeeds only if the proof verifies, and fails with
\* InvalidSignature when enough entries are supplied and it does not verify.
C6_ExecuteVerifiesTheProof ==
    /\ (result.op = "execute_transaction" /\ result.err = "Ok")
          => /\ result.args.n_signatures >= wallet.guardian_threshold
             /\ result.args.verifies
    /\ (result.op = "execute_transaction" /\ result.err = "InsufficientSignatures")
          => ~wallet.is_frozen
    /\ ~wallet.is_frozen
          => \A d \in Payloads, n \in 0..MaxSigs, v \in BOOLEAN :
                n < wallet.guardian_threshold
                  => execute_transaction_handler(wallet, d, n, v).err
                        = "InsufficientSignatures"

\* C7: no transfer or execute_transaction is accepted twice: the same
\* instruction submitted again after it was committed is rejected.
C7_NoInstructionAcceptedTwice ==
    result.op \in {"transfer_spl", "execute_transaction"} => ~result.replay

\* the wallet w with the freeze flag cleared
Unfrozen(w) == [w EXCEPT !.is_frozen = FALSE]

\* C8: on a frozen wallet every transfer_spl and execute_transaction whose
\* handler runs fails with WalletFrozen, whatever the amount, payload and
\* signatures (and none succeeds at all); freeze_wallet and unfreeze_wallet
\* answer as they do on an unfrozen wallet.
C8_FrozenRejectsSpending ==
    wallet.is_frozen
        => /\ result.op \in {"transfer_spl", "execute_transaction"}
                => /\ result.err # "Ok"
                   /\ HandlerEntered => result.err = "WalletFrozen"
           /\ \A a \in U64, ok \in BOOLEAN :
                transfer_spl_handler(wallet, now, a, ok).err = "WalletFrozen"
           /\ \A d \in Payloads, n \in 0..MaxSigs, v \in BOOLEAN :
                execute_transaction_handler(wallet, d, n, v).err = "WalletFrozen"
           /\ \A s \in Signers :
                /\ freeze_wallet_ix(wallet, s).err = freeze_wallet_ix(Unfrozen(wallet), s).err
                /\ unfreeze_wallet_ix(wallet, s, 0).err = "Ok"
           /\ result.op \in {"freeze_wallet", "unfreeze_wallet"}
                => result.err # "WalletFrozen"

C8_Witness ==
    /\ wallet.is_frozen
    /\ result.op = "execute_transaction"
    /\ result.err = "WalletFrozen"

\* C9: initiate_recovery succeeds only when no recovery is pending and then
\* stores new_authority, initiated_at = now and zero approvals; while one is
\* pending it fails with RecoveryAlreadyPending and leaves it unchanged.
C9_OnePendingRecovery ==
    [][ result'.op = "initiate_recovery"
          => IF wallet.pending_recovery = None
             THEN result'.err = "Ok"
                    => /\ wallet'.pending_recovery.new_authority = result'.args.new_authority
                       /\ wallet'.pending_recovery.initiated_at = now
                       /\ wallet'.pending_recovery.approvals = 0
                       /\ approvers' = {}
             ELSE /\ result'.err = "RecoveryAlreadyPending"
                  /\ wallet'.pending_recovery = wallet.pending_recovery
                  /\ approvers' = approvers ]_vars

C9_Witness ==
    /\ result.op = "initiate_recovery"
    /\ result.err = "RecoveryAlreadyPending"
    /\ wallet.pending_recovery # None
    /\ wallet.pending_recovery.approvals > 0

\* C10: guardian_count is the number of active Guardian records and is at
\* most 7; add_guardian, called once 7 guardians exist, fails with
\* TooManyGuardians and creates no record.
C10_GuardianCap ==
    [][ /\ wallet'.guardian_count = ActiveGuardians(guardians')
        /\ wallet'.guardian_count <= 7
        /\ Len(guardians') <= 7
        /\ (result'.op = "add_guardian" /\ Len(guardians) = 7)
              => /\ guardians' = guardians
                 /\ result'.err # "Ok"
                 /\ HandlerEntered' => result'.err = "TooManyGuardians" ]_vars

C10_Witness ==
    /\ result.op = "add_guardian"
    /\ result.err = "TooManyGuardians"
    /\ wallet.guardian_count = 7
    /\ Len(guardians) = 7

\* C11: initialize_wallet with guardian_threshold = 0 fails (InvalidConfig),
\* so an initialized wallet has guardian_threshold > 0, in every reachable
\* state.
C11_ThresholdPositive ==
    /\ (result.op = "initialize_wallet" /\ result.err = "Ok")
          => wallet.guardian_threshold > 0
    /\ wallet.guardian_threshold > 0

Times == {0} \cup InitTimes \cup {t + d : t \in InitTimes, d \in ClockSteps}

\* C13: an accepted transfer_spl with current_day > last_reset_day sets
\* daily_spent to 0 and last_reset_day to current_day before the limit check,
\* so only its own amount is counted and checked against daily_limit; an
\* accepted transfer with current_day <= last_reset_day (a later one of the
\* same day included) does not reset: last_reset_day stays and the amount is
\* added to daily_spent.
C13_LazyDayRollover ==
    /\ [][ (result'.op = "transfer_spl" /\ result'.err = "Ok")
             => LET amount == result'.args.amount IN
                IF DayOf(now) > wallet.last_reset_day
                THEN /\ wallet'.last_reset_day = DayOf(now)
                     /\ wallet'.daily_spent = amount
                     /\ amount <= wallet.daily_limit
                ELSE /\ wallet'.last_reset_day = wallet.last_reset_day
                     /\ wallet.daily_spent + amount <= U64_MAX
                           => wallet'.daily_spent = wallet.daily_spent + amount ]_vars
    /\ [](\A t \in Times, a \in U64 :
            LET out == transfer_spl_handler(wallet, t, a, TRUE) IN
            IF DayOf(t) > wallet.last_reset_day
            THEN ~wallet.is_frozen => (out.err = "Ok" <=> a <= wallet.daily_limit)
            ELSE /\ LazyReset(wallet, t) = wallet
                 /\ out.wallet.last_reset_day = wallet.last_reset_day)

\* the second transfer accepted on the day of a reset
C13_Witness ==
    /\ result.op = "transfer_spl"
    /\ result.err = "Ok"
    /\ result.args.amount = 1
    /\ wallet.last_reset_day = DayOf(now)
    /\ wallet.last_reset_day > DayOf(CHOOSE t \in InitTimes : TRUE)
    /\ wallet.daily_spent = 2

\* C14: a successful execute_recovery sets authority to the stored
\* new_authority, clears pending_recovery (a new initiate_recovery is not
\* refused as already pending, and is accepted when its timestamp arithmetic
\* fits), increments nonce by one and changes no other wallet field nor any
\* guardian record.
C14_ExecuteRecoveryHandsOver ==
    [][ (result'.op = "execute_recovery" /\ result'.err = "Ok")
          => /\ wallet.pending_recovery # None
             /\ wallet' = [wallet EXCEPT
                              !.authority = wallet.pending_recovery.new_authority,
                              !.pending_recovery = None,
                              !.nonce = wallet.nonce + 1]
             /\ guardians' = guardians
             /\ \A g \in GuardianSlots, na \in NewAuthorities :
                   LET out == initiate_recovery_ix(wallet', now', guardians'[g], na) IN
                   /\ out.err # "RecoveryAlreadyPending"
                   /\ ~DelayOverflows(wallet', now') => out.err = "Ok" ]_vars

\* a recovery initiated after an executed one
C14_Witness ==
    /\ wallet.authority # InitAuthority
    /\ wallet.nonce = 1
    /\ result.op = "initiate_recovery"
    /\ result.err = "Ok"
    /\ wallet.pending_recovery # None

\* the Guardian account data an ApproveRecovery can be handed (lib.rs:303-311)
GuardianRecords == [pubkey : GuardianKeys, is_active : BOOLEAN]

C16_TransferOnlyByAuthority ==
    (result.op = "transfer_spl" /\ result.err = "Ok" /\ result.args.amount > 0)
        => result.args.signer = wallet.authority

\* C17: approve_recovery records an approval, and initiate_recovery starts a
\* recovery, only when the signer of the call is the registered pubkey of the
\* guardian record passed in.
C17_GuardianSignsForItself ==
    (result.op \in {"approve_recovery", "initiate_recovery"} /\ result.err = "Ok")
        => result.args.signer = guardians[result.args.guardian].pubkey

\* C18: the authority is changed by no operation other than a successful
\* execute_recovery, and whenever it changes, at least guardian_threshold
\* distinct active guardians had approved the pending recovery, which names
\* the new authority, and recovery_delay had elapsed since its initiation.
C18_AuthorityOnlyByApprovedRecovery ==
    [][ wallet'.authority # wallet.authority
          => /\ result'.op = "execute_recovery"
             /\ result'.err = "Ok"
             /\ wallet.pending_recovery # None
             /\ wallet'.authority = wallet.pending_recovery.new_authority
             /\ Cardinality({g \in approvers : guardians[g].is_active})
                   >= wallet.guardian_threshold
             /\ now >= wallet.pending_recovery.initiated_at + wallet.recovery_delay ]_vars

\* C19: the limit check is exact over the whole u64 range: a transfer whose
\* true sum daily_spent + amount (after the lazy reset) exceeds daily_limit,
\* sums beyond U64_MAX included, is never accepted, and the daily_spent
\* stored by an accepted transfer is that true sum.
C19_LimitCheckExact ==
    [][ (result'.op = "transfer_spl" /\ result'.err = "Ok")
          => LET spent == LazyReset(wallet, now).daily_spent
                 amount == result'.args.amount IN
             /\ spent + amount <= wallet.daily_limit
             /\ wallet'.daily_spent = spent + amount ]_vars

\* a pending recovery that the clock and the nonce of the model can complete
Completable(w) ==
    /\ w.pending_recovery # None
    /\ w.guardian_threshold <= ActiveGuardians(guardians)
    /\ w.pending_recovery.initiated_at + w.recovery_delay <= MaxNow
    /\ w.nonce < MaxNonce

\* C20: a pending recovery on a wallet whose guardian_threshold is at most
\* its number of active guardians does not stay stuck: when the guardians keep
\* approving, the clock passes initiated_at + recovery_delay and
\* execute_recovery keeps being attempted, the wallet eventually has no
\* pending recovery and authority = new_authority; and once quorum is
\* reached, a further approve_recovery never takes it away again.
C20_RecoveryNotStuck ==
    /\ [][ (result'.op = "approve_recovery" /\ wallet.pending_recovery # None
            /\ EnoughApprovals(wallet))
              => EnoughApprovals(wallet') ]_vars
    /\ \A na \in NewAuthorities :
          (Completable(wallet) /\ wallet.pending_recovery.new_authority = na)
             ~> (wallet.pending_recovery = None /\ wallet.authority = na)

====
